---- MODULE Spec2Model ----
(***************************************************************************)
(* Model of the parking allocation tab (src/ui/parking_allocation_tab.py). *)
(*                                                                         *)
(* Spec      : the caller side.  Allocation and removal requests each run  *)
(*             in a thread of their own over the parking manager's shared  *)
(*             parking_data, next to the main thread's reset and the       *)
(*             visualization refresh.  One action is one step between two  *)
(*             points at which Python may switch threads.                  *)
(* SpecGroup : allocate_group as a function of the mapping it iterates.    *)
(* SpecMembers : the caller on a store that holds an allocated group.      *)
(* SpecEnsured : the caller on a manager without a store, so that the      *)
(*             store is the one ensure_parking_data builds.                *)
(* SpecEngine : allocate_parking called directly on a store.               *)
(* SpecQueue : update_loop and the update queue; SpecQueueFair adds that   *)
(*             the update thread keeps taking steps while it has one.      *)
(*                                                                         *)
(* Python dicts are functions; a key a dict lacks is outside the DOMAIN.   *)
(* The weight of the 0.0 .. 1.0 scale is kept in tenths.  A vehicle id     *)
(* f"V{n}" is the string "V" \o ToString(n); Python's None is "None".      *)
(***************************************************************************)
EXTENDS Integers, Sequences, FiniteSets, TLC

VARIABLES
    has_parking_data,       \* hasattr(app.parking_manager, 'parking_data')
    parking_data,           \* app.parking_manager.parking_data: space_id -> record
    allocated_vehicles,     \* self.allocated_vehicles, pairs <<vehicle_id, space_id>> in insertion order
    next_vehicle_id,        \* self.next_vehicle_id
    vehicle_size,           \* self.vehicle_size (tk.IntVar)
    preferred_section,      \* self.preferred_section (tk.StringVar)
    load_balancing_weight,  \* self.load_balancing_weight (tk.DoubleVar), in tenths
    engine_weight,          \* self.allocation_engine.load_balancing_weight, in tenths
    posList,                \* app.posList
    threads,                \* the worker threads: position and local variables
    group_spaces,           \* the mapping allocate_group iterates, in iteration order
    group_call,             \* the last call of allocate_group and what it returned
    update_queue,           \* self.update_queue, oldest entry first
    running,                \* self.running
    auto_allocation_enabled,\* self.auto_allocation_enabled (tk.BooleanVar)
    loop,                   \* update_loop: its position and visualization_counter
    queued,                 \* how many functions queue_function has been handed
    executed,               \* the functions of queue_function that were run, and by which thread
    stats_text,             \* the text of self.stats_text
    engine_call             \* the last direct call of allocate_parking and what it returned

vars == <<has_parking_data, parking_data, allocated_vehicles, next_vehicle_id,
          vehicle_size, preferred_section, load_balancing_weight, engine_weight,
          posList, threads, group_spaces, group_call,
          update_queue, running, auto_allocation_enabled, loop, queued, executed,
          engine_call, stats_text>>

groupVars == <<group_spaces, group_call>>

queueVars == <<update_queue, running, auto_allocation_enabled, loop, queued, executed>>

callerVars == <<has_parking_data, parking_data, allocated_vehicles, next_vehicle_id,
                vehicle_size, preferred_section, load_balancing_weight, engine_weight,
                posList, threads, stats_text>>

(***************************************************************************)
(* Bounds of the model.                                                    *)
(***************************************************************************)
MaxThreads == 2
MaxSpaces == 2
MaxSections == 1
MaxGroups == 3
MaxMembers == 3
MaxQueued == 2

None == "None"

(***************************************************************************)
(* Python dict helpers.                                                    *)
(***************************************************************************)
\* d[k] = v on a dict d: the key is added when it is missing.
SetItem(d, k, v) == [f \in DOMAIN d \cup {k} |-> IF f = k THEN v ELSE d[f]]

\* d.get(k, default)
Get(d, k, default) == IF k \in DOMAIN d THEN d[k] ELSE default

\* An insertion-ordered dict kept as a sequence of <<key, value>> pairs.
Keys(od) == {od[i][1] : i \in 1..Len(od)}

Lookup(od, k) == LET i == CHOOSE j \in 1..Len(od) : od[j][1] = k IN od[i][2]

\* od[k] = v: an existing key keeps its place, a new key goes last.
OrderedSet(od, k, v) ==
    IF k \in Keys(od)
    THEN [i \in 1..Len(od) |-> IF od[i][1] = k THEN <<k, v>> ELSE od[i]]
    ELSE Append(od, <<k, v>>)

\* del od[k], for a key that is present
OrderedDel(od, k) == SelectSeq(od, LAMBDA p : p[1] # k)

(***************************************************************************)
(* ensure_parking_data: the store built from app.posList.                  *)
(***************************************************************************)
\* app.image_width, app.image_height
image == [width |-> 4, height |-> 4]

\* The rectangles (x, y, w, h) a lot is drawn from.  Widths are in vehicle
\* sizes, so that a space holds small, medium or large vehicles.
Positions == { <<0, 0, 1, 1>>, <<3, 0, 2, 1>> }

PosLists == UNION { [1..n -> Positions] : n \in 0..MaxSpaces }

\* "A" if x < image_width / 2 else "B", then "1" if y < image_height / 2 else "2"
Section(pos) ==
    (IF 2 * pos[1] < image.width THEN "A" ELSE "B")
        \o (IF 2 * pos[2] < image.height THEN "1" ELSE "2")

\* f"S{i + 1}-{section}" for the 0-based index i + 1 = n
SpaceId(n, pos) == "S" \o ToString(n) \o "-" \o Section(pos)

\* f"V{self.next_vehicle_id}"
VehicleId(n) == "V" \o ToString(n)

\* The record ensure_parking_data stores for one position.
NewSpace(pos) ==
    [position |-> pos, occupied |-> TRUE, vehicle_id |-> None,
     distance_to_entrance |-> pos[1] + pos[2], section |-> Section(pos)]

SpaceIds(pl) == { SpaceId(n, pl[n]) : n \in 1..Len(pl) }

IndexOf(pl, sid) == CHOOSE n \in 1..Len(pl) : SpaceId(n, pl[n]) = sid

EnsuredData(pl) == [sid \in SpaceIds(pl) |-> NewSpace(pl[IndexOf(pl, sid)])]

(***************************************************************************)
(* A store the parking manager already owns when the tab is built: the     *)
(* same lot, each space reported free or reported without an occupied      *)
(* flag, none of them holding a vehicle.                                   *)
(***************************************************************************)
ManagerSpace(pos, flagged) ==
    IF flagged
    THEN [position |-> pos, occupied |-> FALSE, vehicle_id |-> None,
          distance_to_entrance |-> pos[1] + pos[2], section |-> Section(pos)]
    ELSE [position |-> pos, vehicle_id |-> None,
          distance_to_entrance |-> pos[1] + pos[2], section |-> Section(pos)]

ManagerData(pl, flags) ==
    [sid \in SpaceIds(pl) |-> ManagerSpace(pl[IndexOf(pl, sid)], flags[IndexOf(pl, sid)])]

(***************************************************************************)
(* The allocation engine, app.allocation_engine.allocate_parking.  Its     *)
(* code is outside src/: this is the single-space allocation of the        *)
(* specification (section 4.1), with scores in thousandths.                *)
(***************************************************************************)
\* capacity of a space, inferred from its dimensions
Capacity(data) == data.position[3]

\* step 1 and the size policy: free, and not too small for the vehicle
Candidates(spaces, size) ==
    { s \in DOMAIN spaces :
        /\ "occupied" \in DOMAIN spaces[s]
        /\ spaces[s].occupied = FALSE
        /\ Capacity(spaces[s]) >= size }

\* exact match scores highest, an oversized space lower
SizeFit(data, size) == (1000 * size) \div Capacity(data)

\* a space of the preferred section gets the bonus
SectionFit(data, section) ==
    IF section = None \/ data.section = section THEN 1000 ELSE 500

\* decreases with the distance to the entrance
ProximityScoreGrowing(data) == 1000 - (1000 * 1000) \div (1000 + data.distance_to_entrance)

ProximityScore(data) == (1000 * 1000) \div (1000 + data.distance_to_entrance)

\* rewards sections with fewer current occupants
BalanceScore(spaces, data) ==
    LET same == { s \in DOMAIN spaces : spaces[s].section = data.section }
        free == { s \in same : "occupied" \in DOMAIN spaces[s] /\ spaces[s].occupied = FALSE }
    IN  (1000 * Cardinality(free)) \div Cardinality(same)

\* final_score = (1 - w) * proximity_score + w * balance_score
FinalScore(spaces, data, w) ==
    ((10 - w) * ProximityScore(data) + w * BalanceScore(spaces, data)) \div 10

CompositeScore(spaces, s, size, section, w) ==
    (SizeFit(spaces[s], size) * SectionFit(spaces[s], section)
        * FinalScore(spaces, spaces[s], w)) \div (1000 * 1000)

\* a beats b: greater score, then lower distance, then smaller identifier
\* ("S1-.." < "S2-.." as strings is the order of the indices below 10)
Beats(spaces, pl, a, b, size, section, w) ==
    LET sa == CompositeScore(spaces, a, size, section, w)
        sb == CompositeScore(spaces, b, size, section, w)
        da == spaces[a].distance_to_entrance
        db == spaces[b].distance_to_entrance
    IN  \/ sa > sb
        \/ sa = sb /\ da < db
        \/ sa = sb /\ da = db /\ IndexOf(pl, a) < IndexOf(pl, b)

\* allocate_parking(parking_data, vehicle_size, preferred_section) -> (id, score)
allocate_parking(spaces, pl, size, section, w) ==
    LET cand == Candidates(spaces, size)
    IN  IF cand = {}
        THEN <<None, 0>>
        ELSE LET best == CHOOSE a \in cand :
                            \A b \in cand \ {a} : Beats(spaces, pl, a, b, size, section, w)
             IN  <<best, CompositeScore(spaces, best, size, section, w)>>

(***************************************************************************)
(* A direct call of the engine on a store, next to the calls the worker    *)
(* threads make: the caller sets the weight (lines 365-366), then calls.   *)
(***************************************************************************)
NoEngineCall ==
    [called |-> FALSE, vehicle_size |-> 0, preferred_section |-> None, weight |-> 0,
     best_space_id |-> None, score |-> 0]

call_allocate_parking(size, section, w) ==
    /\ engine_weight' = w
    /\ LET r == allocate_parking(parking_data, posList, size, section, engine_weight')
       IN  engine_call' = [called |-> TRUE, vehicle_size |-> size, preferred_section |-> section,
                           weight |-> w, best_space_id |-> r[1], score |-> r[2]]
    /\ UNCHANGED <<has_parking_data, parking_data, allocated_vehicles, next_vehicle_id,
                   vehicle_size, preferred_section, load_balancing_weight, posList, threads,
                   groupVars, queueVars, stats_text>>

(***************************************************************************)
(* Worker threads.  allocate_new_vehicle and remove_random_vehicle start   *)
(* one thread per request; a thread identifier is used once.               *)
(* issued records the form values in effect when the request was issued;   *)
(* the code keeps no such record.  A local variable is set back once the   *)
(* thread has no more use for it: the weight after the engine call it was  *)
(* read for.                                                               *)
(***************************************************************************)
Threads == 1..MaxThreads

NoParams == [vehicle_size |-> 0, preferred_section |-> None, weight |-> 0]

IdleThread ==
    [kind |-> "none", pc |-> "idle", outcome |-> None,
     vehicle_id |-> None, vehicle_size |-> 0, preferred_section |-> None, weight |-> 0,
     best_space_id |-> None, space_id |-> None, counter |-> 0,
     issued |-> NoParams]

\* the values of the "Preferred section" and "Vehicle size" boxes and of the scale
SectionValues == <<"A", "B", "C", "D">>
SectionChoices == {"Any"} \cup { SectionValues[i] : i \in 1..MaxSections }
VehicleSizes == {1, 2, 3}
Weights == {0, 3}

\* None if self.preferred_section.get() == "Any" else self.preferred_section.get()
SectionOrNone(s) == IF s = "Any" THEN None ELSE s

\* {space_id: data ... if not data.get('occupied', True)}
FreeSpaces(data) == { s \in DOMAIN data : ~Get(data[s], "occupied", TRUE) }

\* the thread ends: its local variables are gone, what it reported stays
Finish(t, result) ==
    [threads EXCEPT ![t] = [IdleThread EXCEPT !.kind = threads[t].kind,
                                              !.pc = "done", !.outcome = result]]

Goto(t, label) == [threads EXCEPT ![t].pc = label]

\* threading.Thread(target=...).start(): the next unused thread
NextThread == CHOOSE t \in Threads : threads[t].pc = "idle" /\ \A u \in 1..(t - 1) : threads[u].pc # "idle"

CanStart == \E t \in Threads : threads[t].pc = "idle"

\* what no step of a worker thread changes
Others == <<has_parking_data, posList, vehicle_size, preferred_section, load_balancing_weight,
            groupVars, queueVars, engine_call>>

(***************************************************************************)
(* The form.  The scale moves at any time; the size and section boxes get  *)
(* their values when a request is issued with them (add_random_vehicle     *)
(* sets both, as does a user who fills the boxes and presses Allocate).    *)
(***************************************************************************)
move_load_balancing_scale(w) ==
    /\ load_balancing_weight # w
    /\ load_balancing_weight' = w
    /\ UNCHANGED <<has_parking_data, parking_data, allocated_vehicles, next_vehicle_id,
                   vehicle_size, preferred_section, engine_weight, posList, threads, groupVars,
                   queueVars, engine_call, stats_text>>

(***************************************************************************)
(* allocate_new_vehicle, add_random_vehicle                                *)
(***************************************************************************)
StartAllocation(size, sec) ==
    [threads EXCEPT ![NextThread] =
        [IdleThread EXCEPT !.kind = "allocate", !.pc = "snapshot",
                           !.issued = [vehicle_size |-> size,
                                       preferred_section |-> SectionOrNone(sec),
                                       weight |-> load_balancing_weight]]]

allocate_new_vehicle ==
    /\ CanStart
    /\ threads' = StartAllocation(vehicle_size, preferred_section)
    /\ UNCHANGED <<has_parking_data, parking_data, allocated_vehicles, next_vehicle_id,
                   vehicle_size, preferred_section, load_balancing_weight, engine_weight,
                   posList, groupVars, queueVars, engine_call, stats_text>>

add_random_vehicle(size, sec) ==
    /\ CanStart
    /\ vehicle_size' = size
    /\ preferred_section' = sec
    /\ threads' = StartAllocation(size, sec)
    /\ UNCHANGED <<has_parking_data, parking_data, allocated_vehicles, next_vehicle_id,
                   load_balancing_weight, engine_weight, posList, groupVars,
                   queueVars, engine_call, stats_text>>

(***************************************************************************)
(* _allocate_vehicle_thread.  "with threading.Lock():" locks a lock made   *)
(* on the spot, which no other thread shares, so it excludes nothing.      *)
(* parking_data.copy() is a shallow copy: its records are the records of   *)
(* the store, and its keys are the keys of the store.                      *)
(***************************************************************************)
\* lines 339-356: the copy, "No parking data", "No Free Spaces"
allocate_snapshot(t) ==
    /\ threads[t].kind = "allocate" /\ threads[t].pc = "snapshot"
    /\ threads' =
         IF ~has_parking_data THEN Finish(t, "Error")
         ELSE IF DOMAIN parking_data = {} THEN Finish(t, "NoParkingData")
         ELSE IF FreeSpaces(parking_data) = {} THEN Finish(t, "NoFreeSpaces")
         ELSE Goto(t, "params")
    /\ UNCHANGED <<parking_data, allocated_vehicles, next_vehicle_id, engine_weight, stats_text, Others>>

\* lines 359-362: the vehicle parameters, read when the thread gets here
allocate_params(t) ==
    /\ threads[t].kind = "allocate" /\ threads[t].pc = "params"
    /\ threads' = [threads EXCEPT ![t].pc = "set_weight",
                                  ![t].vehicle_id = VehicleId(next_vehicle_id),
                                  ![t].vehicle_size = vehicle_size,
                                  ![t].preferred_section = SectionOrNone(preferred_section),
                                  ![t].weight = load_balancing_weight]
    /\ UNCHANGED <<parking_data, allocated_vehicles, next_vehicle_id, engine_weight, stats_text, Others>>

\* lines 365-366: the weight goes into the engine all threads share
allocate_set_weight(t) ==
    /\ threads[t].kind = "allocate" /\ threads[t].pc = "set_weight"
    /\ engine_weight' = threads[t].weight
    /\ threads' = Goto(t, "engine")
    /\ UNCHANGED <<parking_data, allocated_vehicles, next_vehicle_id, stats_text, Others>>

\* allocate_engine with the counter moved on even when no space is found
allocate_engine_consuming_id(t) ==
    /\ threads[t].kind = "allocate" /\ threads[t].pc = "engine"
    /\ LET r == allocate_parking(parking_data, posList, threads[t].vehicle_size,
                                 threads[t].preferred_section, engine_weight)
       IN  /\ threads' = IF r[1] = None
                         THEN Finish(t, "AllocationFailed")
                         ELSE [threads EXCEPT ![t].pc = "mark_occupied",
                                              ![t].best_space_id = r[1],
                                              ![t].vehicle_size = 0,
                                              ![t].preferred_section = None,
                                              ![t].weight = 0,
                                              ![t].issued = NoParams]
           /\ next_vehicle_id' = IF r[1] = None THEN next_vehicle_id + 1 ELSE next_vehicle_id
    /\ UNCHANGED <<parking_data, allocated_vehicles, engine_weight, stats_text, Others>>

\* lines 369-372, 397-399: the engine call on the live records; the score it
\* returns goes into the text of the success message only
allocate_engine(t) ==
    /\ threads[t].kind = "allocate" /\ threads[t].pc = "engine"
    /\ LET r == allocate_parking(parking_data, posList, threads[t].vehicle_size,
                                 threads[t].preferred_section, engine_weight)
       IN  threads' = IF r[1] = None
                      THEN Finish(t, "AllocationFailed")
                      ELSE [threads EXCEPT ![t].pc = "mark_occupied",
                                           ![t].best_space_id = r[1],
                                           ![t].vehicle_size = 0,
                                           ![t].preferred_section = None,
                                           ![t].weight = 0,
                                           ![t].issued = NoParams]
    /\ UNCHANGED <<parking_data, allocated_vehicles, next_vehicle_id, engine_weight, stats_text, Others>>

\* line 378
allocate_mark_occupied(t) ==
    /\ threads[t].kind = "allocate" /\ threads[t].pc = "mark_occupied"
    /\ LET s == threads[t].best_space_id
       IN  parking_data' = [parking_data EXCEPT ![s] = SetItem(@, "occupied", TRUE)]
    /\ threads' = Goto(t, "set_vehicle_id")
    /\ UNCHANGED <<allocated_vehicles, next_vehicle_id, engine_weight, stats_text, Others>>

\* line 379
allocate_set_vehicle_id(t) ==
    /\ threads[t].kind = "allocate" /\ threads[t].pc = "set_vehicle_id"
    /\ LET s == threads[t].best_space_id
       IN  parking_data' = [parking_data EXCEPT ![s] = SetItem(@, "vehicle_id", threads[t].vehicle_id)]
    /\ threads' = Goto(t, "store_allocation")
    /\ UNCHANGED <<allocated_vehicles, next_vehicle_id, engine_weight, stats_text, Others>>

\* line 382
allocate_store_allocation(t) ==
    /\ threads[t].kind = "allocate" /\ threads[t].pc = "store_allocation"
    /\ allocated_vehicles' =
         OrderedSet(allocated_vehicles, threads[t].vehicle_id, threads[t].best_space_id)
    /\ threads' = Goto(t, "load_counter")
    /\ UNCHANGED <<parking_data, next_vehicle_id, engine_weight, stats_text, Others>>

\* line 383, self.next_vehicle_id += 1: the load ...
allocate_load_counter(t) ==
    /\ threads[t].kind = "allocate" /\ threads[t].pc = "load_counter"
    /\ threads' = [threads EXCEPT ![t].pc = "store_counter", ![t].counter = next_vehicle_id]
    /\ UNCHANGED <<parking_data, allocated_vehicles, next_vehicle_id, engine_weight, stats_text, Others>>

\* ... and the store of the sum; lines 386-393 queue the success message
allocate_store_counter(t) ==
    /\ threads[t].kind = "allocate" /\ threads[t].pc = "store_counter"
    /\ next_vehicle_id' = threads[t].counter + 1
    /\ threads' = Finish(t, "AllocationSuccess")
    /\ UNCHANGED <<parking_data, allocated_vehicles, engine_weight, stats_text, Others>>

(***************************************************************************)
(* remove_random_vehicle, _remove_vehicle_thread                           *)
(***************************************************************************)
remove_random_vehicle ==
    /\ CanStart
    /\ threads' = [threads EXCEPT ![NextThread] =
                      [IdleThread EXCEPT !.kind = "remove", !.pc = "pick"]]
    /\ UNCHANGED <<parking_data, allocated_vehicles, next_vehicle_id, engine_weight, stats_text, Others>>

\* lines 494-501: "No Vehicles", or random.choice of an allocated vehicle
remove_pick(t) ==
    /\ threads[t].kind = "remove" /\ threads[t].pc = "pick"
    /\ IF allocated_vehicles = <<>>
       THEN threads' = Finish(t, "NoVehicles")
       ELSE \E v \in Keys(allocated_vehicles) :
               threads' = [threads EXCEPT ![t].pc = "clear_occupied",
                                          ![t].vehicle_id = v,
                                          ![t].space_id = Lookup(allocated_vehicles, v)]
    /\ UNCHANGED <<parking_data, allocated_vehicles, next_vehicle_id, engine_weight, stats_text, Others>>

\* lines 506-507
remove_clear_occupied(t) ==
    /\ threads[t].kind = "remove" /\ threads[t].pc = "clear_occupied"
    /\ LET s == threads[t].space_id
       IN  parking_data' = IF s \in DOMAIN parking_data
                           THEN [parking_data EXCEPT ![s] = SetItem(@, "occupied", FALSE)]
                           ELSE parking_data
    /\ threads' = Goto(t, "clear_vehicle_id")
    /\ UNCHANGED <<allocated_vehicles, next_vehicle_id, engine_weight, stats_text, Others>>

\* line 508
remove_clear_vehicle_id(t) ==
    /\ threads[t].kind = "remove" /\ threads[t].pc = "clear_vehicle_id"
    /\ LET s == threads[t].space_id
       IN  parking_data' = IF s \in DOMAIN parking_data
                           THEN [parking_data EXCEPT ![s] = SetItem(@, "vehicle_id", None)]
                           ELSE parking_data
    /\ threads' = Goto(t, "delete")
    /\ UNCHANGED <<allocated_vehicles, next_vehicle_id, engine_weight, stats_text, Others>>

\* line 511; a vehicle that is gone by now raises KeyError, caught at line 519
remove_delete(t) ==
    /\ threads[t].kind = "remove" /\ threads[t].pc = "delete"
    /\ IF threads[t].vehicle_id \in Keys(allocated_vehicles)
       THEN /\ allocated_vehicles' = OrderedDel(allocated_vehicles, threads[t].vehicle_id)
            /\ threads' = Finish(t, "VehicleRemoved")
       ELSE /\ allocated_vehicles' = allocated_vehicles
            /\ threads' = Finish(t, "Error")
    /\ UNCHANGED <<parking_data, next_vehicle_id, engine_weight, stats_text, Others>>

(***************************************************************************)
(* update_visualization, with "Show visualization" ticked.  The loop of    *)
(* lines 203-206 writes through the shallow copy into the store's records. *)
(***************************************************************************)
RECURSIVE ReflectAllocations(_, _, _)
ReflectAllocations(data, av, i) ==
    IF i > Len(av) THEN data
    ELSE LET v == av[i][1]
             s == av[i][2]
             marked == IF s \in DOMAIN data
                       THEN [data EXCEPT ![s] = SetItem(SetItem(@, "occupied", TRUE), "vehicle_id", v)]
                       ELSE data
         IN  ReflectAllocations(marked, av, i + 1)

Visualized(data) ==
    IF DOMAIN data = {} THEN data ELSE ReflectAllocations(data, allocated_vehicles, 1)

update_visualization ==
    /\ has_parking_data
    /\ parking_data' = Visualized(parking_data)
    /\ UNCHANGED <<allocated_vehicles, next_vehicle_id, engine_weight, threads, stats_text, Others>>

(***************************************************************************)
(* update_statistics: the counts it writes into the text widget.  A space  *)
(* counts as free if data.get('occupied') == False.                        *)
(***************************************************************************)
\* line 157: the text before the first update
LoadingStatistics == [text |-> "Loading statistics..."]

Statistics(data, av) ==
    LET total_spaces == Cardinality(DOMAIN data)
        free_spaces == Cardinality({ s \in DOMAIN data :
                                        "occupied" \in DOMAIN data[s] /\ data[s].occupied = FALSE })
    IN  [total_spaces |-> total_spaces, free_spaces |-> free_spaces,
         occupied_spaces |-> total_spaces - free_spaces, allocations |-> Len(av)]

update_statistics ==
    /\ stats_text' = Statistics(parking_data, allocated_vehicles)
    /\ UNCHANGED <<parking_data, allocated_vehicles, next_vehicle_id, engine_weight, threads, Others>>

(***************************************************************************)
(* reset_simulation, confirmed in the dialog                               *)
(***************************************************************************)
ResetSpace(data) == SetItem(SetItem(data, "occupied", FALSE), "vehicle_id", None)

reset_simulation ==
    /\ has_parking_data
    /\ parking_data' = [s \in DOMAIN parking_data |-> ResetSpace(parking_data[s])]
    /\ allocated_vehicles' = <<>>
    /\ next_vehicle_id' = 1
    /\ stats_text' = Statistics(parking_data', allocated_vehicles')
    /\ UNCHANGED <<engine_weight, threads, Others>>

(***************************************************************************)
(* on_tab_selected: ensure_parking_data, then the refresh                  *)
(***************************************************************************)
ensure_parking_data(data) ==
    IF has_parking_data THEN data ELSE EnsuredData(posList)

on_tab_selected ==
    /\ has_parking_data' = TRUE
    /\ parking_data' = Visualized(ensure_parking_data(parking_data))
    /\ stats_text' = Statistics(parking_data', allocated_vehicles)
    /\ UNCHANGED <<allocated_vehicles, next_vehicle_id, vehicle_size, preferred_section,
                   load_balancing_weight, engine_weight, posList, threads, groupVars,
                   queueVars, engine_call>>

(***************************************************************************)
(* The update queue.  __init__ starts update_loop in a thread of its own   *)
(* (lines 44-45); every other method runs in the main thread or in a       *)
(* worker thread.  An entry of the queue is the function and, for a        *)
(* function handed to queue_function, the number of that call (the code    *)
(* keeps no such number); the loop's own entries carry the number 0.       *)
(* What a queued function does to the store when it runs is the matter of  *)
(* the caller's actions above: here it returns or raises.                  *)
(***************************************************************************)
MainThread == "MainThread"
UpdateThread == "update_thread"

\* update_interval = 5, visualization_counter = 0
update_interval == [visualization |-> 5, statistics |-> 5 * 2]

\* since_visualization is history the code does not keep: the number of
\* iterations completed since the last one that scheduled update_visualization
LoopStart == [pc |-> "test", visualization_counter |-> 0, since_visualization |-> 0]

\* the functions the worker threads hand to queue_function
QueuedFunctions == {"messagebox", "update_visualization", "update_statistics"}

\* func(*args) may raise: a message box shown, and the form variables that
\* add_random_vehicle sets, outside the main thread; update_visualization and
\* update_statistics catch what they raise
CanRaise(f) == f \in {"messagebox", "add_random_vehicle"}

\* self.update_queue.put((func, args))
Put(q, f, n) == Append(q, [func |-> f, ticket |-> n])

\* lines 582-586
queue_function(f) ==
    /\ queued < MaxQueued
    /\ queued' = queued + 1
    /\ update_queue' = Put(update_queue, f, queued + 1)
    /\ UNCHANGED <<running, auto_allocation_enabled, loop, executed, callerVars, groupVars,
                   engine_call>>

\* the "Enable auto allocation" box
toggle_auto_allocation ==
    /\ auto_allocation_enabled' = ~auto_allocation_enabled
    /\ UNCHANGED <<update_queue, running, loop, queued, executed, callerVars, groupVars,
                   engine_call>>

\* lines 617-621; join(timeout=1.0) waits, and changes nothing
cleanup ==
    /\ running
    /\ running' = FALSE
    /\ UNCHANGED <<update_queue, auto_allocation_enabled, loop, queued, executed, callerVars,
                   groupVars, engine_call>>

LoopStep(label) ==
    /\ loop.pc = label
    /\ UNCHANGED <<running, auto_allocation_enabled, queued, callerVars, groupVars, engine_call>>

\* a loop whose test does not read self.running
loop_test_ignoring_running ==
    /\ LoopStep("test")
    /\ loop' = [loop EXCEPT !.pc = "drain"]
    /\ UNCHANGED <<update_queue, executed>>

\* line 550: while self.running
loop_test ==
    /\ LoopStep("test")
    /\ loop' = [loop EXCEPT !.pc = IF running THEN "drain" ELSE "ended"]
    /\ UNCHANGED <<update_queue, executed>>

\* lines 553-555: one entry is taken off and called, in the update thread; an
\* exception other than queue.Empty leaves update_loop, and the thread ends
loop_execute(raises) ==
    /\ LoopStep("drain")
    /\ update_queue # <<>>
    /\ LET entry == Head(update_queue)
       IN  /\ raises => CanRaise(entry.func)
           /\ executed' = IF entry.ticket > 0
                           THEN Append(executed, [ticket |-> entry.ticket, thread |-> UpdateThread])
                           ELSE executed
    /\ update_queue' = Tail(update_queue)
    /\ loop' = IF raises THEN [loop EXCEPT !.pc = "died"] ELSE loop

\* line 553: the queue is empty
loop_drained ==
    /\ LoopStep("drain")
    /\ update_queue = <<>>
    /\ loop' = [loop EXCEPT !.pc = "auto_allocation"]
    /\ UNCHANGED <<update_queue, executed>>

\* lines 560-567: add is random.random() < 0.1, remove is random.random() < 0.05
loop_auto_allocation(add, remove) ==
    /\ LoopStep("auto_allocation")
    /\ add => auto_allocation_enabled
    /\ remove => auto_allocation_enabled /\ allocated_vehicles # <<>>
    /\ LET added == IF add THEN Put(update_queue, "add_random_vehicle", 0) ELSE update_queue
       IN  update_queue' = IF remove THEN Put(added, "remove_random_vehicle", 0) ELSE added
    /\ loop' = [loop EXCEPT !.pc = "refresh"]
    /\ UNCHANGED executed

\* lines 570-577
loop_schedule_refresh ==
    /\ LoopStep("refresh")
    /\ LET counter == loop.visualization_counter + 1
           visualization == IF counter >= update_interval.visualization
                            THEN Put(update_queue, "update_visualization", 0)
                            ELSE update_queue
           since == IF counter >= update_interval.visualization
                    THEN 0
                    ELSE loop.since_visualization + 1
       IN  IF counter >= update_interval.visualization /\ counter >= update_interval.statistics
           THEN /\ update_queue' = Put(visualization, "update_statistics", 0)
                /\ loop' = [pc |-> "sleep", visualization_counter |-> 0,
                            since_visualization |-> since]
           ELSE /\ update_queue' = visualization
                /\ loop' = [pc |-> "sleep", visualization_counter |-> counter,
                            since_visualization |-> since]
    /\ UNCHANGED executed

\* line 580: time.sleep(1)
loop_sleep ==
    /\ LoopStep("sleep")
    /\ loop' = [loop EXCEPT !.pc = "test"]
    /\ UNCHANGED <<update_queue, executed>>

update_loop ==
    \/ loop_test
    \/ \E raises \in BOOLEAN : loop_execute(raises)
    \/ loop_drained
    \/ \E add, remove \in BOOLEAN : loop_auto_allocation(add, remove)
    \/ loop_schedule_refresh
    \/ loop_sleep

\* the queue as __init__ leaves it
QueueStart ==
    /\ update_queue = <<>>
    /\ running = TRUE
    /\ auto_allocation_enabled = FALSE
    /\ loop = LoopStart
    /\ queued = 0
    /\ executed = <<>>

(***************************************************************************)
(* The caller's specification                                              *)
(***************************************************************************)
Init ==
    /\ posList \in PosLists
    /\ has_parking_data \in BOOLEAN
    /\ IF has_parking_data
       THEN \E flags \in [1..Len(posList) -> BOOLEAN] : parking_data = ManagerData(posList, flags)
       ELSE parking_data = <<>>
    /\ allocated_vehicles = <<>>
    /\ next_vehicle_id = 1
    /\ vehicle_size = 1
    /\ preferred_section = "Any"
    /\ load_balancing_weight = 3
    /\ engine_weight = 3
    /\ threads = [t \in Threads |-> IdleThread]
    /\ group_spaces = <<>>
    /\ group_call = <<>>
    /\ QueueStart
    /\ engine_call = NoEngineCall
    /\ stats_text = LoadingStatistics

Next ==
    \/ \E w \in Weights : move_load_balancing_scale(w)
    \/ allocate_new_vehicle
    \/ \E n \in VehicleSizes, sec \in SectionChoices : add_random_vehicle(n, sec)
    \/ remove_random_vehicle
    \/ \E t \in Threads : allocate_snapshot(t)
    \/ \E t \in Threads : allocate_params(t)
    \/ \E t \in Threads : allocate_set_weight(t)
    \/ \E t \in Threads : allocate_engine(t)
    \/ \E t \in Threads : allocate_mark_occupied(t)
    \/ \E t \in Threads : allocate_set_vehicle_id(t)
    \/ \E t \in Threads : allocate_store_allocation(t)
    \/ \E t \in Threads : allocate_load_counter(t)
    \/ \E t \in Threads : allocate_store_counter(t)
    \/ \E t \in Threads : remove_pick(t)
    \/ \E t \in Threads : remove_clear_occupied(t)
    \/ \E t \in Threads : remove_clear_vehicle_id(t)
    \/ \E t \in Threads : remove_delete(t)
    \/ update_visualization
    \/ update_statistics
    \/ reset_simulation
    \/ on_tab_selected

Spec == Init /\ [][Next]_vars

(***************************************************************************)
(* allocate_group.  self.parking_data is the mapping group_spaces, a       *)
(* sequence in the dict's iteration order; the key of the i-th record is   *)
(* GroupId(i).  Scores are exact fractions <<numerator, denominator>> with *)
(* a positive denominator, where the code computes in floating point: for  *)
(* the member counts, sizes and distances drawn below the floats compare   *)
(* with each other and with 0 exactly as the fractions do.  A record with  *)
(* is_group set always has its occupied key, as the data model says.       *)
(***************************************************************************)
GroupId(i) == "G" \o ToString(i)

Abs(n) == IF n < 0 THEN -n ELSE n

Max(a, b) == IF a > b THEN a ELSE b

Less(a, b) == a[1] * b[2] < b[1] * a[2]

Same(a, b) == a[1] * b[2] = b[1] * a[2]

Zero == <<0, 1>>

RECURSIVE Gcd(_, _)
Gcd(a, b) == IF b = 0 THEN a ELSE Gcd(b, a % b)

\* the same fraction in lowest terms
Lowest(f) == LET g == Gcd(Abs(f[1]), f[2]) IN <<f[1] \div g, f[2] \div g>>

\* data.get('is_group', False) and not data['occupied']
IsFreeGroupIgnoringOccupied(data) == Get(data, "is_group", FALSE)

IsFreeGroup(data) == Get(data, "is_group", FALSE) /\ ~data.occupied

\* free_groups, as the places of its records in the mapping
FreeGroups(gs) == SelectSeq([i \in 1..Len(gs) |-> i], LAMBDA i : IsFreeGroup(gs[i]))

\* len(data.get('member_spaces', []))
MemberCount(data) == Len(Get(data, "member_spaces", <<>>))

\* 1 - abs(member_count - vehicle_size) / max(member_count, vehicle_size)
SizeMatchAddingGap(m, v) == Lowest(<<Max(m, v) + Abs(m - v), Max(m, v)>>)

SizeMatch(m, v) == Lowest(<<Max(m, v) - Abs(m - v), Max(m, v)>>)

\* 1 / (1 + data.get('distance_to_entrance', 0) / 1000)
DistanceScore(data) == Lowest(<<1000, 1000 + Get(data, "distance_to_entrance", 0)>>)

\* (size_match * 0.7) + (distance_score * 0.3)
CombineSizeOnly(sm, ds) == Lowest(<<7 * sm[1], 10 * sm[2]>>)

Combine(sm, ds) == Lowest(<<7 * sm[1] * ds[2] + 3 * ds[1] * sm[2], 10 * sm[2] * ds[2]>>)

GroupScore(data, v) == Combine(SizeMatch(MemberCount(data), v), DistanceScore(data))

\* if score > best_score
BeatsOrTies(score, best_score) == ~Less(score, best_score)

BeatsBest(score, best_score) == Less(best_score, score)

\* the loop of lines 638-653 over free_groups from its i-th entry on
RECURSIVE ScanGroups(_, _, _, _, _)
ScanGroups(gs, free, i, v, best) ==
    IF i > Len(free) THEN best
    ELSE LET score == GroupScore(gs[free[i]], v)
         IN  ScanGroups(gs, free, i + 1, v,
                        IF BeatsBest(score, best[2]) THEN <<GroupId(free[i]), score>> ELSE best)

\* max(member_count, vehicle_size) is 0 for some free group: ZeroDivisionError
DividesByZero(gs, v) ==
    \E i \in 1..Len(gs) : IsFreeGroup(gs[i]) /\ Max(MemberCount(gs[i]), v) = 0

NoCall == [vehicle_size |-> 0, raised |-> None, best_group |-> None, best_score |-> Zero,
           called |-> FALSE]

GroupResult(gs, v) ==
    IF FreeGroups(gs) = <<>>
    THEN [vehicle_size |-> v, raised |-> None, best_group |-> None, best_score |-> Zero,
          called |-> TRUE]
    ELSE IF DividesByZero(gs, v)
    THEN [vehicle_size |-> v, raised |-> "ZeroDivisionError", best_group |-> None,
          best_score |-> Zero, called |-> TRUE]
    ELSE LET best == ScanGroups(gs, FreeGroups(gs), 1, v, <<None, Zero>>)
         IN  [vehicle_size |-> v, raised |-> None, best_group |-> best[1],
              best_score |-> best[2], called |-> TRUE]

\* allocate_group that also books the group it returns
allocate_group_booking(vid, size) ==
    /\ group_call' = GroupResult(group_spaces, size)
    /\ group_spaces' =
         [i \in 1..Len(group_spaces) |->
            IF GroupId(i) = group_call'.best_group
            THEN SetItem(SetItem(group_spaces[i], "occupied", TRUE), "vehicle_id", vid)
            ELSE group_spaces[i]]
    /\ UNCHANGED <<callerVars, queueVars, engine_call>>

allocate_group(vid, size) ==
    /\ group_call' = GroupResult(group_spaces, size)
    /\ group_spaces' = group_spaces
    /\ UNCHANGED <<callerVars, queueVars, engine_call>>

(***************************************************************************)
(* The mappings allocate_group is called with: records of the data model,  *)
(* the optional keys present or missing.                                   *)
(***************************************************************************)
MemberIds == <<"S1", "S2", "S3", "S4", "S5", "S6", "S7", "S8", "S9">>

Distances == {3500}

WithMembers(rec, n) ==
    IF n = 0 THEN rec ELSE SetItem(rec, "member_spaces", SubSeq(MemberIds, 1, n))

WithDistance(rec, d) ==
    IF d = 0 THEN rec ELSE SetItem(rec, "distance_to_entrance", d)

GroupRecords ==
    { WithDistance(WithMembers([is_group |-> TRUE, occupied |-> occ, vehicle_id |-> None], n), d) :
        occ \in BOOLEAN, n \in 0..MaxMembers, d \in {0} \cup Distances }

PlainRecords ==
    { [occupied |-> FALSE, vehicle_id |-> None],
      [is_group |-> FALSE, occupied |-> FALSE, vehicle_id |-> None] }

GroupMappings(n) == [1..n -> GroupRecords \cup PlainRecords]

\* the sizes of the form, and the sizes no form offers
CallSizes == -1..3

InitGroup ==
    /\ \E n \in 0..MaxGroups : group_spaces \in GroupMappings(n)
    /\ group_call = NoCall
    /\ posList = <<>>
    /\ has_parking_data = FALSE
    /\ parking_data = <<>>
    /\ allocated_vehicles = <<>>
    /\ next_vehicle_id = 1
    /\ vehicle_size = 1
    /\ preferred_section = "Any"
    /\ load_balancing_weight = 3
    /\ engine_weight = 3
    /\ threads = [t \in Threads |-> IdleThread]
    /\ QueueStart
    /\ engine_call = NoEngineCall
    /\ stats_text = LoadingStatistics

NextGroup == \E v \in CallSizes : allocate_group("V1", v)

SpecGroup == InitGroup /\ [][NextGroup]_vars

(***************************************************************************)
(* The caller on a store that holds a group.  The last record of the lot   *)
(* is a group (is_group, member_spaces) of all the spaces before it, which *)
(* are free; the group has been allocated to vehicle V1 the way a space    *)
(* is: occupied, vehicle_id set, recorded in allocated_vehicles.           *)
(***************************************************************************)
MemberSpaces(pl) == [n \in 1..(Len(pl) - 1) |-> SpaceId(n, pl[n])]

AsGroup(data, vid, members) ==
    SetItem(SetItem(SetItem(SetItem(data, "occupied", TRUE), "vehicle_id", vid),
                    "is_group", TRUE), "member_spaces", members)

GroupStore(pl) ==
    LET spaces == ManagerData(pl, [n \in 1..Len(pl) |-> TRUE])
        group == SpaceId(Len(pl), pl[Len(pl)])
    IN  [spaces EXCEPT ![group] = AsGroup(@, VehicleId(1), MemberSpaces(pl))]

InitMembers ==
    /\ \E n \in 2..MaxSpaces : posList \in [1..n -> Positions]
    /\ has_parking_data = TRUE
    /\ parking_data = GroupStore(posList)
    /\ allocated_vehicles = << <<VehicleId(1), SpaceId(Len(posList), posList[Len(posList)])>> >>
    /\ next_vehicle_id = 2
    /\ vehicle_size = 1
    /\ preferred_section = "Any"
    /\ load_balancing_weight = 3
    /\ engine_weight = 3
    /\ threads = [t \in Threads |-> IdleThread]
    /\ group_spaces = <<>>
    /\ group_call = <<>>
    /\ QueueStart
    /\ engine_call = NoEngineCall
    /\ stats_text = LoadingStatistics

SpecMembers == InitMembers /\ [][Next]_vars

(***************************************************************************)
(* The caller on a parking manager that has no parking_data when the tab   *)
(* is built: the store the tab works on is then the one that               *)
(* ensure_parking_data builds from posList (lines 597-615).                *)
(***************************************************************************)
InitEnsured == Init /\ ~has_parking_data

SpecEnsured == InitEnsured /\ [][Next]_vars

(***************************************************************************)
(* The engine called directly on the stores of lots of up to MaxSpaces + 1 *)
(* spaces, each space free or occupied, with every size of the form, a     *)
(* preferred section or none, and the weights of the scale.                *)
(***************************************************************************)
EnginePositions == Positions \cup { <<1, 0, 1, 1>> }

EngineSections == {None, "A", "A1"}

EngineStore(pl, free) ==
    [sid \in SpaceIds(pl) |->
        [NewSpace(pl[IndexOf(pl, sid)]) EXCEPT !.occupied = ~free[IndexOf(pl, sid)]]]

InitEngine ==
    /\ \E n \in 0..(MaxSpaces + 1) : posList \in [1..n -> EnginePositions]
    /\ has_parking_data = TRUE
    /\ \E free \in [1..Len(posList) -> BOOLEAN] : parking_data = EngineStore(posList, free)
    /\ allocated_vehicles = <<>>
    /\ next_vehicle_id = 1
    /\ vehicle_size = 1
    /\ preferred_section = "Any"
    /\ load_balancing_weight = 3
    /\ engine_weight = 3
    /\ threads = [t \in Threads |-> IdleThread]
    /\ group_spaces = <<>>
    /\ group_call = <<>>
    /\ QueueStart
    /\ engine_call = NoEngineCall
    /\ stats_text = LoadingStatistics

NextEngine ==
    \E size \in VehicleSizes, section \in EngineSections, w \in Weights :
        call_allocate_parking(size, section, w)

SpecEngine == InitEngine /\ [][NextEngine]_vars

(***************************************************************************)
(* The update loop next to the threads that hand it functions, with one    *)
(* vehicle allocated or none.  The thread scheduler lets the update thread *)
(* take its next step as long as it has one.                               *)
(***************************************************************************)
QueuePosList == << <<0, 0, 1, 1>> >>

InitQueue ==
    /\ QueueStart
    /\ posList = QueuePosList
    /\ has_parking_data = TRUE
    /\ \E parked \in BOOLEAN :
          /\ allocated_vehicles =
                IF parked THEN << <<VehicleId(1), SpaceId(1, posList[1])>> >> ELSE <<>>
          /\ next_vehicle_id = IF parked THEN 2 ELSE 1
          /\ parking_data = IF parked
                            THEN Visualized(ManagerData(posList, <<TRUE>>))
                            ELSE ManagerData(posList, <<TRUE>>)
    /\ vehicle_size = 1
    /\ preferred_section = "Any"
    /\ load_balancing_weight = 3
    /\ engine_weight = 3
    /\ threads = [t \in Threads |-> IdleThread]
    /\ group_spaces = <<>>
    /\ group_call = <<>>
    /\ engine_call = NoEngineCall
    /\ stats_text = LoadingStatistics

NextQueue ==
    \/ \E f \in QueuedFunctions : queue_function(f)
    \/ toggle_auto_allocation
    \/ cleanup
    \/ update_loop

SpecQueue == InitQueue /\ [][NextQueue]_vars

SpecQueueFair == SpecQueue /\ WF_vars(update_loop)


(***************************************************************************)
(* Claims about the caller, checked under Spec.                            *)
(***************************************************************************)
Trio == <<parking_data, allocated_vehicles, next_vehicle_id>>

\* thread t takes a step of its request
Steps(t) == threads[t].kind # "none" /\ threads'[t] # threads[t]

Ends(t, result) ==
    threads[t].pc # "done" /\ threads'[t].pc = "done" /\ threads'[t].outcome = result

IsFree(data) == "occupied" \in DOMAIN data /\ data.occupied = FALSE

\* C1: no space is double-booked.  An allocation commits only to a space that
\* is still free in the store when it commits, and no two vehicles of
\* allocated_vehicles are recorded at the same space.
C1_NoDoubleBooking ==
    [][ /\ \A t \in Threads :
             (threads[t].pc = "mark_occupied" /\ Steps(t))
                 => IsFree(parking_data[threads[t].best_space_id])
        /\ \A i, j \in 1..Len(allocated_vehicles') :
             i # j => allocated_vehicles'[i][2] # allocated_vehicles'[j][2] ]_vars

\* C2: in every state of the store a space's vehicle_id is non-null if and
\* only if its occupied flag is true.
C2_VehicleIdIffOccupied ==
    \A s \in DOMAIN parking_data :
        (parking_data[s].vehicle_id # None)
            <=> ("occupied" \in DOMAIN parking_data[s] /\ parking_data[s].occupied = TRUE)

\* C3: an allocation request that finds no space changes nothing.  With zero
\* free spaces the request ends at once, with the engine returning no
\* identifier it ends as failed, and no step of a request that has chosen no
\* space changes the store, allocated_vehicles or next_vehicle_id.
C3_NoSpaceChangesNothing ==
    [][ \A t \in Threads :
          /\ (threads[t].pc = "snapshot" /\ Steps(t) /\ has_parking_data
                  /\ FreeSpaces(parking_data) = {})
                => /\ threads'[t].pc = "done"
                   /\ threads'[t].outcome \in {"NoFreeSpaces", "NoParkingData"}
                   /\ threads'[t].best_space_id = None
          /\ (threads[t].pc = "engine" /\ Steps(t)
                  /\ Candidates(parking_data, threads[t].vehicle_size) = {})
                => Ends(t, "AllocationFailed") /\ threads'[t].best_space_id = None
          /\ (threads[t].kind = "allocate" /\ Steps(t) /\ threads[t].best_space_id = None)
                => UNCHANGED Trio
          /\ (Ends(t, "NoFreeSpaces") \/ Ends(t, "NoParkingData") \/ Ends(t, "AllocationFailed"))
                => threads[t].best_space_id = None /\ UNCHANGED Trio ]_vars

\* C3 witness: a request has ended as failed although the store has a free
\* space (none large enough for the vehicle).
C3_Witness ==
    \E t \in Threads :
        /\ threads[t].pc = "done"
        /\ threads[t].outcome = "AllocationFailed"
        /\ FreeSpaces(parking_data) # {}

\* C4: when the request for vehicle V with chosen space S completes, S is
\* occupied with vehicle_id V, allocated_vehicles maps V to S, next_vehicle_id
\* is one more than the number that named V, and the request's writes to the
\* store left every other space as it was.
C4_SuccessfulAllocationEffect ==
    [][ \A t \in Threads :
          LET S == threads[t].best_space_id
              V == threads[t].vehicle_id
          IN  /\ Ends(t, "AllocationSuccess")
                    => /\ parking_data'[S].occupied = TRUE
                       /\ parking_data'[S].vehicle_id = V
                       /\ V \in Keys(allocated_vehicles')
                       /\ Lookup(allocated_vehicles', V) = S
                       /\ VehicleId(next_vehicle_id' - 1) = V
              /\ (threads[t].kind = "allocate" /\ Steps(t))
                    => \A s \in DOMAIN parking_data \ {S} :
                           parking_data'[s] = parking_data[s] ]_vars

\* C5: when the removal of vehicle V from space S completes, V is absent from
\* allocated_vehicles and S is free with vehicle_id None, unless an allocation
\* request has chosen S in the meantime; the removal changes no other space.
ChosenByAllocation(S, data, av) ==
    \/ \E u \in Threads : threads'[u].kind = "allocate" /\ threads'[u].best_space_id = S
    \/ /\ data[S].vehicle_id \in Keys(av)
       /\ Lookup(av, data[S].vehicle_id) = S

C5_RemovalEffect ==
    [][ \A t \in Threads :
          LET S == threads[t].space_id
              V == threads[t].vehicle_id
          IN  /\ Ends(t, "VehicleRemoved")
                    => /\ V \notin Keys(allocated_vehicles')
                       /\ \/ IsFree(parking_data'[S]) /\ parking_data'[S].vehicle_id = None
                          \/ ChosenByAllocation(S, parking_data', allocated_vehicles')
              /\ (threads[t].kind = "remove" /\ Steps(t))
                    => \A s \in DOMAIN parking_data \ {S} :
                           parking_data'[s] = parking_data[s] ]_vars

\* C6: the engine call of a request works with the vehicle size, preferred
\* section and weight that were in effect when the request was issued.
C6_OwnParameters ==
    [][ \A t \in Threads :
          (threads[t].pc = "engine" /\ Steps(t))
              => /\ threads[t].vehicle_size = threads[t].issued.vehicle_size
                 /\ threads[t].preferred_section = threads[t].issued.preferred_section
                 /\ engine_weight = threads[t].issued.weight ]_vars

(***************************************************************************)
(* Claims about allocate_group, checked under SpecGroup.                   *)
(***************************************************************************)
\* a free group as the specification words it: is_group true, occupied false
FreeGroupPlaces ==
    { i \in 1..Len(group_spaces) :
        /\ "is_group" \in DOMAIN group_spaces[i]
        /\ group_spaces[i].is_group = TRUE
        /\ group_spaces[i].occupied = FALSE }

\* 0.7 * size_match + 0.3 * distance_score of the record at place i, with
\* size_match = 1 - |m - v| / max(m, v) and distance_score = 1 / (1 + d / 1000)
StatedScore(i) ==
    LET data == group_spaces[i]
        m == IF "member_spaces" \in DOMAIN data THEN Len(data.member_spaces) ELSE 0
        d == IF "distance_to_entrance" \in DOMAIN data THEN data.distance_to_entrance ELSE 0
        v == group_call.vehicle_size
        top == IF m > v THEN m ELSE v
        gap == IF m > v THEN m - v ELSE v - m
    IN  Lowest(<<7 * (top - gap) * (1000 + d) + 3000 * top, 10 * top * (1000 + d)>>)

FormSize == group_call.called /\ group_call.vehicle_size \in {1, 2, 3}

\* C7: a call of allocate_group leaves every record of the mapping as it was.
C7_GroupCallHasNoSideEffect == [][group_spaces' = group_spaces]_vars

\* C7 witness: a call has returned a group.
C7_Witness == group_call.called /\ group_call.best_group # None

\* C8: for a vehicle size of 1, 2 or 3 the call returns a free group whose
\* score is the greatest of all free groups, the returned score is that
\* score, and every free group seen before it scores strictly less.
C8_GreatestScoreFirstSeen ==
    (FormSize /\ FreeGroupPlaces # {})
        => \E b \in FreeGroupPlaces :
              /\ group_call.best_group = GroupId(b)
              /\ Same(group_call.best_score, StatedScore(b))
              /\ \A g \in FreeGroupPlaces : ~Less(StatedScore(b), StatedScore(g))
              /\ \A g \in FreeGroupPlaces : g < b => Less(StatedScore(g), StatedScore(b))

\* C8 witness: two free groups tie for the greatest score and the call has
\* returned the one seen first.
C8_Witness ==
    /\ FormSize
    /\ \E b, g \in FreeGroupPlaces :
          /\ b < g
          /\ Same(StatedScore(b), StatedScore(g))
          /\ group_spaces[b] # group_spaces[g]
          /\ \A h \in FreeGroupPlaces : ~Less(StatedScore(b), StatedScore(h))
          /\ group_call.best_group = GroupId(b)

\* C9: with no free group in the mapping the call returns (None, 0).
C9_NoFreeGroupReturnsNone ==
    (group_call.called /\ FreeGroupPlaces = {})
        => /\ group_call.raised = None
           /\ group_call.best_group = None
           /\ group_call.best_score = Zero

\* C9 witness: the call has returned on a mapping whose groups are all
\* occupied, next to a record that is no group.
C9_Witness ==
    /\ group_call.called
    /\ FreeGroupPlaces = {}
    /\ \E i, j \in 1..Len(group_spaces) :
          /\ Get(group_spaces[i], "is_group", FALSE) /\ group_spaces[i].occupied
          /\ ~Get(group_spaces[j], "is_group", FALSE)

\* C10: with a free group in the mapping and a vehicle size of 1, 2 or 3 the
\* call returns a group identifier and a score strictly greater than 0.
C10_FreeGroupIsReturned ==
    (FormSize /\ FreeGroupPlaces # {})
        => /\ group_call.raised = None
           /\ group_call.best_group # None
           /\ Less(Zero, group_call.best_score)

\* C10 witness: the only free group has no member spaces, so its size match
\* is 0, and the call has returned it.
C10_Witness ==
    /\ FormSize
    /\ \E b \in FreeGroupPlaces :
          /\ FreeGroupPlaces = {b}
          /\ "member_spaces" \notin DOMAIN group_spaces[b]
          /\ group_call.best_group = GroupId(b)

\* the score 1 as a fraction
One == <<1, 1>>

C14_InvalidSizeIsRejected ==
    (group_call.called /\ group_call.vehicle_size \notin {1, 2, 3})
        => /\ group_call.raised # None
           /\ group_call.best_group = None

(***************************************************************************)
(* Claims about the update queue, checked under SpecQueue and, for what    *)
(* must eventually happen, under SpecQueueFair.                            *)
(***************************************************************************)
\* C19: every function handed to queue_function is run by the main thread,
\* never by the update thread or a worker thread.
C19_QueuedFunctionsRunInMainThread ==
    \A i \in 1..Len(executed) : executed[i].thread = MainThread

\* the n-th function handed to queue_function waits in the queue
Waits(n) == \E i \in 1..Len(update_queue) : update_queue[i].ticket = n

\* it has been taken off and run
Ran(n) == \E i \in 1..Len(executed) : executed[i].ticket = n

\* C20: as long as running is set, a function put on the queue is eventually
\* taken off and run, also after a function run before it has failed; no
\* function is run twice, and functions are run in the order they were queued.
C20_QueuedFunctionsRunOnceInOrder ==
    /\ \A n \in 1..MaxQueued : Waits(n) ~> (Ran(n) \/ ~running)
    /\ [](\A i, j \in 1..Len(executed) :
             i < j => executed[i].ticket < executed[j].ticket)

\* the step is lines 570-577 of one iteration of update_loop
RefreshStep == loop.pc = "refresh" /\ loop'.pc = "sleep"

\* that step puts function f on the queue
Scheduled(f) ==
    /\ RefreshStep
    /\ \E i \in Len(update_queue) + 1 .. Len(update_queue') : update_queue'[i].func = f

\* C21: update_loop schedules update_visualization once every 5 iterations,
\* that is exactly when the 4 iterations before this one scheduled none, and
\* update_statistics once every 10 iterations, that is exactly when 9
\* iterations have passed since the last one that scheduled it
\* (visualization_counter is set to 0 with update_statistics and counts the
\* iterations since).
C21_RefreshEveryFifthIteration ==
    [][ RefreshStep =>
          /\ Scheduled("update_visualization")
                <=> loop.since_visualization = update_interval.visualization - 1
          /\ Scheduled("update_statistics")
                <=> loop.visualization_counter = update_interval.statistics - 1 ]_vars

\* the entries of the queue that update_loop itself has put there
LoopEntries(q) == SelectSeq(q, LAMBDA entry : entry.ticket = 0)

\* update_loop has returned, or its thread has ended with an exception
Terminated == loop.pc \in {"ended", "died"}

\* C22: once cleanup has set running to false it stays false and update_loop
\* terminates; the loop finishes at most the iteration it is in (its next test
\* of running leaves the loop), and once it has terminated it takes nothing
\* off the queue, runs nothing and puts nothing on the queue.
C22_CleanupStopsTheLoop ==
    /\ ~running ~> Terminated
    /\ [][ /\ ~running => ~running'
           /\ (~running /\ loop.pc = "test" /\ loop' # loop) => loop'.pc = "ended"
           /\ Terminated => /\ loop' = loop
                             /\ executed' = executed
                             /\ Len(update_queue') >= Len(update_queue)
                             /\ LoopEntries(update_queue') = LoopEntries(update_queue) ]_vars

\* cleanup has been called and update_loop, which had run a queued function,
\* has returned and left on the queue a function handed to queue_function
C22_Witness ==
    /\ ~running
    /\ loop.pc = "ended"
    /\ executed # <<>>
    /\ \E n \in 1..MaxQueued : Waits(n)

(***************************************************************************)
(* Claims about single-space allocation, checked under SpecEngine.         *)
(***************************************************************************)
\* free spaces a and b, large enough for the vehicle of the call, of equal
\* size fit and equal section match, a nearer to the entrance than b
CloserPair(a, b) ==
    /\ IsFree(parking_data[a]) /\ IsFree(parking_data[b])
    /\ parking_data[a].position[3] >= engine_call.vehicle_size
    /\ parking_data[b].position[3] >= engine_call.vehicle_size
    /\ SizeFit(parking_data[a], engine_call.vehicle_size)
          = SizeFit(parking_data[b], engine_call.vehicle_size)
    /\ (parking_data[a].section = engine_call.preferred_section)
          <=> (parking_data[b].section = engine_call.preferred_section)
    /\ parking_data[a].distance_to_entrance < parking_data[b].distance_to_entrance

\* C15: with load-balancing weight 0, of two free spaces with identical size
\* fit and section match the farther one is never returned, and the nearer
\* one is returned when the two are the only free spaces.
C15_CloserSpaceWinsAtWeightZero ==
    (engine_call.called /\ engine_call.weight = 0)
        => \A a, b \in DOMAIN parking_data :
              CloserPair(a, b)
                  => /\ engine_call.best_space_id # b
                     /\ (FreeSpaces(parking_data) = {a, b}) => engine_call.best_space_id = a

\* C15 witness: a call with weight 0 on a store whose only free spaces are
\* such a pair, listed farther one first, has returned the nearer one.
C15_Witness ==
    /\ engine_call.called
    /\ engine_call.weight = 0
    /\ \E a, b \in DOMAIN parking_data :
          /\ CloserPair(a, b)
          /\ FreeSpaces(parking_data) = {a, b}
          /\ IndexOf(posList, b) < IndexOf(posList, a)
          /\ engine_call.best_space_id = a

(***************************************************************************)
(* More claims about the caller, checked under Spec.                       *)
(***************************************************************************)
\* what allocate_parking returns for the store as it is and the given weight
EngineResult(t, w) ==
    allocate_parking(parking_data, posList, threads[t].vehicle_size,
                     threads[t].preferred_section, w)

\* C12: an allocation request returns the identifier and score that its
\* store snapshot and its own parameters (vehicle size, preferred section,
\* weight) determine, so that two runs with the same snapshot and parameters
\* return the same.
C12_AllocationIsDeterministic ==
    [][ \A t \in Threads :
          (threads[t].pc = "engine" /\ Steps(t))
              => /\ threads'[t].best_space_id = EngineResult(t, threads[t].weight)[1]
                 /\ EngineResult(t, engine_weight) = EngineResult(t, threads[t].weight) ]_vars

\* C16: a request never commits with a vehicle identifier that another
\* request has committed with since the last reset.
C16_VehicleIdsAreUnique ==
    [][ \A t \in Threads :
          (threads[t].pc = "store_allocation" /\ Steps(t))
              => threads[t].vehicle_id \notin Keys(allocated_vehicles) ]_vars

\* no allocation and no removal is in progress (a reset is one step)
Quiescent == \A t \in Threads : threads[t].pc \in {"idle", "done"}

\* C17: whenever no request is in progress, a space carries the vehicle_id v
\* if and only if allocated_vehicles maps v to that space.
C17_StoreAgreesWithAllocations ==
    Quiescent
        => /\ \A s \in DOMAIN parking_data :
                 parking_data[s].vehicle_id # None
                     => /\ parking_data[s].vehicle_id \in Keys(allocated_vehicles)
                        /\ Lookup(allocated_vehicles, parking_data[s].vehicle_id) = s
           /\ \A i \in 1..Len(allocated_vehicles) :
                 /\ allocated_vehicles[i][2] \in DOMAIN parking_data
                 /\ parking_data[allocated_vehicles[i][2]].vehicle_id = allocated_vehicles[i][1]

\* the occupied flag of every space (no flag: the empty set) and its vehicle_id
Occupancy(data) ==
    [s \in DOMAIN data |->
        [occupied |-> IF "occupied" \in DOMAIN data[s] THEN {data[s].occupied} ELSE {},
         vehicle_id |-> data[s].vehicle_id]]

\* C18: a run of update_visualization or of update_statistics leaves the
\* occupied flag and vehicle_id of every space, allocated_vehicles and
\* next_vehicle_id as they were.
C18_RefreshIsReadOnly ==
    [][ (update_visualization \/ update_statistics)
            => /\ Occupancy(parking_data') = Occupancy(parking_data)
               /\ UNCHANGED <<allocated_vehicles, next_vehicle_id>> ]_vars

(***************************************************************************)
(* Claims about the members of a group, checked under SpecMembers.         *)
(***************************************************************************)
\* the groups of the store that are allocated: occupied, with a vehicle
AllocatedGroups ==
    { g \in DOMAIN parking_data :
        /\ "is_group" \in DOMAIN parking_data[g] /\ parking_data[g].is_group = TRUE
        /\ "occupied" \in DOMAIN parking_data[g] /\ parking_data[g].occupied = TRUE
        /\ parking_data[g].vehicle_id # None }

MembersOf(g) ==
    { parking_data[g].member_spaces[i] : i \in 1..Len(parking_data[g].member_spaces) }

\* C13: while a group is allocated, no allocation request commits to one of
\* the spaces listed in its member_spaces.
C13_GroupMembersAreNotAllocated ==
    [][ \A t \in Threads :
          (threads[t].pc = "mark_occupied" /\ Steps(t))
              => \A g \in AllocatedGroups : threads[t].best_space_id \notin MembersOf(g) ]_vars

(***************************************************************************)
(* Claims about the reset, checked under SpecEnsured.                      *)
(***************************************************************************)
\* C23: a confirmed reset_simulation leaves every space with the occupied
\* flag and the vehicle_id that ensure_parking_data gave it when it built
\* the store, allocated_vehicles empty and next_vehicle_id 1.
C23_ResetRestoresInitialState ==
    [][ reset_simulation
            => /\ Occupancy(parking_data') = Occupancy(EnsuredData(posList))
               /\ allocated_vehicles' = <<>>
               /\ next_vehicle_id' = 1 ]_vars

====
